---- MODULE Spec2Model ----
(***************************************************************************)
(* Export job of ChatCut (web/src-tauri/src/export.rs): the three Tauri    *)
(* commands export_video, get_export_progress and cancel_export acting on  *)
(* the one Mutex<ExportState> that lib.rs registers, together with the     *)
(* FFmpeg child processes they spawn, kill and read from.                  *)
(*                                                                         *)
(* Conventions.                                                            *)
(*   Option<T>   is a sequence of length at most one: <<>> is None and     *)
(*               <<x>> is Some(x).                                         *)
(*   percent     is kept in tenths of a percent (1000 is 100.0, 999 is     *)
(*               99.9); the inputs are chosen so that the division of      *)
(*               get_export_progress is exact.                             *)
(*   speed       the label "<n>x" is kept as the number n.                 *)
(*   Child::kill always returns Ok: the standard library returns Ok for a  *)
(*               child that has already exited, and SIGKILL to a child of  *)
(*               the same user cannot fail.  Child::try_wait likewise      *)
(*               never returns Err for a child the job still owns.         *)
(***************************************************************************)
EXTENDS Integers, Sequences, FiniteSets, TLC

VARIABLES child, progress, total_duration, lock, procs, pc, arg, loc, last,
          sawEnd

vars == <<child, progress, total_duration, lock, procs, pc, arg, loc, last,
          sawEnd>>

\* ------------------------------------------------------------------ bounds
\* Number of engine processes the job may spawn in one behaviour.
MaxProcs == 2
\* Number of progress blocks one engine process writes to its standard output.
MaxOut == 2

\* ------------------------------------------------------------------ inputs
Callers == {1, 2}
Pids == 1..MaxProcs

None == <<>>
Some(x) == <<x>>

\* Clips as export_video reads them for the job state: the source range.
Clip(source_start, source_end) ==
  [source_start |-> source_start, source_end |-> source_end]

\* The clip lists the frontend passes: none, one clip, two clips.
ClipLists == {<<>>, <<Clip(1, 3)>>, <<Clip(1, 3), Clip(0, 2)>>}

FpsVals == {30}

\* out_time_us values the engine reports (microseconds): a negative value
\* (FFmpeg reports one before the first frame) and one that lies inside the
\* total duration of two clips and past that of one.
TimeVals == {-1000000, 3000000}

\* Lines of the -progress pipe:1 stream.  parses is whether the value part
\* parses as a number (FFmpeg writes out_time_us=N/A).
Line(k, parses, v) == [k |-> k, parses |-> parses, v |-> v]

\* out_time_us lines: the values of TimeVals and the unparsable N/A.
TimeLines ==
  {Line("out_time_us", TRUE, t) : t \in TimeVals} \cup {Line("out_time_us", FALSE, 0)}

ProgressLines == {Line("progress=continue", TRUE, 0), Line("progress=end", TRUE, 0)}

\* FFmpeg builds one block of key=value lines per report and writes it to
\* the pipe with a single write: frame, out_time_us, speed, progress.
Block(time, prog) == <<Line("frame", TRUE, 7), time, Line("speed", TRUE, 2), prog>>

OutBlocks == {Block(t, g) : t \in TimeLines, g \in ProgressLines}

\* What the engine has written to its error stream by the time it ends, as
\* the lines BufReader::lines yields; "" is an empty line.
ErrStreams == {<<>>, <<"E1">>, <<"E1", "">>}

CancelMsg == "Export cancelled by user"
ExitCodeMsg == "FFmpeg exited with code"

\* ------------------------------------------------------- ExportState
\* Mutant of DefaultProgress: the idle snapshot says running.
IdleProgressRunning ==
  [percent |-> 0, frame |-> 0, total_frames |-> 0, speed |-> 0, eta |-> 0,
   running |-> TRUE, error |-> <<>>]

\* ExportProgress as ExportState::default builds it, which is also the
\* snapshot get_export_progress returns when there is no child.
DefaultProgress ==
  [percent |-> 0, frame |-> 0, total_frames |-> 0, speed |-> 0, eta |-> 0,
   running |-> FALSE, error |-> None]

\* ExportProgress as export_video stores it after a successful spawn.
StartedProgress(total_frames) ==
  [percent |-> 0, frame |-> 0, total_frames |-> total_frames, speed |-> 0,
   eta |-> 0, running |-> TRUE, error |-> None]

\* clips.iter().map(|c| c.source_end - c.source_start).sum()
RECURSIVE TotalDuration(_)
TotalDuration(clips) ==
  IF clips = <<>> THEN 0
  ELSE (Head(clips).source_end - Head(clips).source_start)
       + TotalDuration(Tail(clips))

\* (total_duration * settings.fps).ceil() as u64, on whole numbers
TotalFrames(total, fps) == total * fps

\* Mutant of ClipsEmpty: the validation is missing.
ClipsEmptyNever(clips) == FALSE

\* clips.is_empty()
ClipsEmpty(clips) == Len(clips) = 0

\* ------------------------------------------------------ engine process
\* A process the job has not spawned yet.
Unborn ==
  [st |-> "unborn", ok |-> FALSE, open |-> FALSE, out |-> <<>>, err |-> <<>>,
   killed |-> FALSE, wrote |-> 0, ended |-> FALSE]

\* A process right after Command::spawn with both streams piped.
Spawned ==
  [st |-> "running", ok |-> FALSE, open |-> TRUE, out |-> <<>>, err |-> <<>>,
   killed |-> FALSE, wrote |-> 0, ended |-> FALSE]

Alive(p) == procs[p].st = "running"

\* Child::kill: SIGKILL ends a running process with a failure status and
\* closes its ends of the pipes, err being what it had logged by then; on
\* an exited process it does nothing.
Kill(r, err) ==
  IF r.st = "running"
  THEN [r EXCEPT !.st = "exited", !.ok = FALSE, !.open = FALSE,
                 !.killed = TRUE, !.err = err]
  ELSE r

\* Dropping the Child closes the job's ends of the pipes: what was still
\* buffered in them is gone.  The process itself is not touched.
Dropped(r) == [r EXCEPT !.out = <<>>, !.err = <<>>, !.wrote = 0, !.ended = FALSE]

\* ------------------------------------------------- get_export_progress
Micro == 1000000
PercentCap == 999
PercentDone == 1000

\* The local variables of one get_export_progress call.
InitLoc ==
  [new_percent |-> None, new_speed |-> None, new_frame |-> None,
   is_finished |-> FALSE, error_msg |-> None,
   current_time |-> None, current_speed |-> None, current_frame |-> None]

Min(a, b) == IF a < b THEN a ELSE b

\* (time / total_duration * 100.0).min(99.9) with time = time_us / 1_000_000,
\* in tenths of a percent: time_us / 1_000_000 / total * 1000.
PercentOf(time_us, total) == Min(time_us \div ((Micro \div 1000) * total), PercentCap)

\* Does the line loop leave after this line?
Breaks(line) == line.k \in {"progress=end", "progress=continue"}

\* One iteration of `for line in reader.lines()` on an Ok(line).
ReadLine(l, line, total) ==
  CASE line.k = "out_time_us" ->
         IF line.parses THEN [l EXCEPT !.current_time = Some(line.v)] ELSE l
    [] line.k = "speed" -> [l EXCEPT !.current_speed = Some(line.v)]
    [] line.k = "frame" ->
         IF line.parses THEN [l EXCEPT !.current_frame = Some(line.v)] ELSE l
    [] line.k = "progress=end" ->
         [l EXCEPT !.is_finished = TRUE, !.new_percent = Some(PercentDone)]
    [] line.k = "progress=continue" ->
         [l EXCEPT !.new_percent =
                      IF l.current_time # None /\ total > 0
                      THEN Some(PercentOf(l.current_time[1], total))
                      ELSE l.new_percent,
                   !.new_speed = l.current_speed,
                   !.new_frame = l.current_frame]
    [] OTHER -> l

\* error_lines.last().cloned().unwrap_or_else(|| format!("FFmpeg exited ..."))
LastErrorLine(error_lines) ==
  IF error_lines = <<>> THEN ExitCodeMsg ELSE error_lines[Len(error_lines)]

\* The match on child.try_wait() for process record r.
TryWait(l, r) ==
  IF r.st = "exited"
  THEN IF ~r.ok
       THEN [l EXCEPT !.is_finished = TRUE,
                      !.error_msg = Some(LastErrorLine(r.err))]
       ELSE [l EXCEPT !.is_finished = TRUE, !.new_percent = Some(PercentDone)]
  ELSE l

\* Mutant of Apply: is_finished does not clear running.
ApplyKeepsRunning(pr, l) ==
  [pr EXCEPT !.percent = IF l.new_percent # <<>> THEN l.new_percent[1] ELSE @,
             !.speed = IF l.new_speed # <<>> THEN l.new_speed[1] ELSE @,
             !.frame = IF l.new_frame # <<>> THEN l.new_frame[1] ELSE @,
             !.error = IF l.error_msg # <<>> THEN l.error_msg ELSE @]

\* Phase 2: apply the collected data to state.progress.
Apply(pr, l) ==
  [pr EXCEPT !.percent = IF l.new_percent # None THEN l.new_percent[1] ELSE @,
             !.speed = IF l.new_speed # None THEN l.new_speed[1] ELSE @,
             !.frame = IF l.new_frame # None THEN l.new_frame[1] ELSE @,
             !.running = IF l.is_finished THEN FALSE ELSE @,
             !.error = IF l.error_msg # None THEN l.error_msg ELSE @]

\* What a call returned: the command, its Result and, for a poll, the
\* snapshot.
Returned(op, res, snap) == [op |-> op, res |-> res, snap |-> snap]

\* ------------------------------------------------------------- state
\* lib.rs manages Mutex::new(ExportState::default()); no process exists and
\* no command is in progress.
Init ==
  /\ child = None
  /\ progress = DefaultProgress
  /\ total_duration = 0
  /\ lock = 0
  /\ procs = [p \in Pids |-> Unborn]
  /\ pc = [c \in Callers |-> "idle"]
  /\ arg = [c \in Callers |-> <<>>]
  /\ loc = InitLoc
  /\ last = Returned("none", "none", DefaultProgress)
  /\ sawEnd = FALSE

NumSpawned == Cardinality({p \in Pids : procs[p].st # "unborn"})

\* ------------------------------------------------------------ the host
\* The frontend invokes the commands from the callers of Callers, in any
\* order and concurrently.  A call starts with export_state.lock(): it waits
\* while another call holds the mutex (lock # 0) and takes it when it is
\* free, so the first step of every command is guarded by lock = 0.

\* --------------------------------------------------------- export_video
\* Mutant of KillExisting: the old process is not killed.
KillExistingSkipped(ps, ch, err) == ps

\* lock(), then "If there's an existing process, kill it first".
KillExisting(ps, ch, err) ==
  IF ch # None THEN [ps EXCEPT ![ch[1]] = Kill(ps[ch[1]], err)] ELSE ps

\* clips is the argument of the call; nothing reads it before the lock is
\* taken, so it is drawn here.
StartKill(c) ==
  /\ pc[c] = "idle"
  /\ lock = 0
  /\ lock' = c
  /\ \E clips \in ClipLists : arg' = [arg EXCEPT ![c] = clips]
  /\ \E err \in ErrStreams : procs' = KillExisting(procs, child, err)
  /\ pc' = [pc EXCEPT ![c] = "start_locked"]
  /\ UNCHANGED <<child, progress, total_duration, loc, last, sawEnd>>

\* if clips.is_empty() { return Err("No clips to export") }
StartRejectEmpty(c) ==
  /\ pc[c] = "start_locked"
  /\ ClipsEmpty(arg[c])
  /\ last' = Returned("start", "Err:No clips to export", DefaultProgress)
  /\ lock' = 0
  /\ pc' = [pc EXCEPT ![c] = "idle"]
  /\ arg' = [arg EXCEPT ![c] = <<>>]
  /\ UNCHANGED <<child, progress, total_duration, procs, loc, sawEnd>>

\* cmd.spawn() fails: the Err is returned through `?`.
StartSpawnFail(c) ==
  /\ pc[c] = "start_locked"
  /\ ~ClipsEmpty(arg[c])
  /\ last' = Returned("start", "Err:Failed to start FFmpeg", DefaultProgress)
  /\ lock' = 0
  /\ pc' = [pc EXCEPT ![c] = "idle"]
  /\ arg' = [arg EXCEPT ![c] = <<>>]
  /\ UNCHANGED <<child, progress, total_duration, procs, loc, sawEnd>>

\* cmd.spawn() succeeds: the new Child replaces state.child (the old Child is
\* dropped), total_duration and progress are reset.
StartSpawnOk(c) ==
  /\ pc[c] = "start_locked"
  /\ ~ClipsEmpty(arg[c])
  /\ NumSpawned < MaxProcs
  /\ LET new == NumSpawned + 1
         total == TotalDuration(arg[c])
     IN  /\ procs' = [p \in Pids |->
                        IF p = new THEN Spawned
                        ELSE IF child = Some(p) THEN Dropped(procs[p])
                        ELSE procs[p]]
         /\ child' = Some(new)
         /\ total_duration' = total
         /\ \E fps \in FpsVals :
              progress' = StartedProgress(TotalFrames(total, fps))
  /\ last' = Returned("start", "Ok:Export started", DefaultProgress)
  /\ sawEnd' = FALSE
  /\ lock' = 0
  /\ pc' = [pc EXCEPT ![c] = "idle"]
  /\ arg' = [arg EXCEPT ![c] = <<>>]
  /\ UNCHANGED loc

\* -------------------------------------------------- get_export_progress
\* lock(); state.child.is_none(): return the idle progress.
PollIdle(c) ==
  /\ pc[c] = "idle"
  /\ lock = 0
  /\ child = None
  /\ last' = Returned("poll", "Ok", DefaultProgress)
  /\ UNCHANGED <<child, progress, total_duration, lock, procs, pc, arg, loc, sawEnd>>

\* lock(); there is a child: the locals are initialised and the line loop
\* over BufReader::new(stdout).lines() is entered.
PollLock(c) ==
  /\ pc[c] = "idle"
  /\ lock = 0
  /\ child # None
  /\ lock' = c
  /\ loc' = InitLoc
  /\ pc' = [pc EXCEPT ![c] = "poll_read"]
  /\ UNCHANGED <<child, progress, total_duration, procs, arg, last, sawEnd>>

\* for line in reader.lines() { ... } over the lines that are in the pipe:
\* ReadLine on each line up to and including the first one that breaks.
RECURSIVE ReadLoop(_, _, _)
ReadLoop(l, out, total) ==
  IF out = <<>> THEN l
  ELSE IF Breaks(Head(out)) THEN ReadLine(l, Head(out), total)
  ELSE ReadLoop(ReadLine(l, Head(out), total), Tail(out), total)

\* Number of lines the loop consumes from out.
RECURSIVE Consumed(_)
Consumed(out) ==
  IF out = <<>> THEN 0
  ELSE IF Breaks(Head(out)) THEN 1
  ELSE 1 + Consumed(Tail(out))

\* The BufReader is created for this call and dropped at its end, together
\* with what it had taken out of the pipe beyond the consumed lines: the
\* blocks that were in the pipe when it filled its buffer.  The pipe may
\* lose any number of the whole blocks that follow the consumed one.
LostWithReader(rest) == {0} \cup {i \in 1..Len(rest) : Breaks(rest[i])}

\* The blocking reads return lines up to a progress line: the loop breaks.
PollReadLine(c) ==
  /\ pc[c] = "poll_read"
  /\ LET p == child[1]
         out == procs[p].out
         rest == SubSeq(out, Consumed(out) + 1, Len(out))
     IN  /\ out # <<>>
         /\ loc' = ReadLoop(loc, out, total_duration)
         /\ \E k \in LostWithReader(rest) :
              procs' = [procs EXCEPT ![p].out = SubSeq(rest, k + 1, Len(rest))]
         /\ sawEnd' = (sawEnd \/ out[Consumed(out)].k = "progress=end")
  /\ pc' = [pc EXCEPT ![c] = "poll_wait"]
  /\ UNCHANGED <<child, progress, total_duration, lock, arg, last>>

\* The blocking read returns end of file: the pipe is empty and its write
\* end is closed.  While the pipe is empty and open the read does not
\* return, and neither PollReadLine nor PollReadEof is enabled.
PollReadEof(c) ==
  /\ pc[c] = "poll_read"
  /\ procs[child[1]].out = <<>>
  /\ ~procs[child[1]].open
  /\ pc' = [pc EXCEPT ![c] = "poll_wait"]
  /\ UNCHANGED <<child, progress, total_duration, lock, procs, arg, loc, last, sawEnd>>

\* child.try_wait(), reading the error stream to its end after a failed
\* exit, then phase 2 and the return of state.progress.clone().
PollTryWait(c) ==
  /\ pc[c] = "poll_wait"
  /\ LET p == child[1]
         l == TryWait(loc, procs[p])
     IN  /\ progress' = Apply(progress, l)
         /\ last' = Returned("poll", "Ok", Apply(progress, l))
         /\ procs' = IF procs[p].st = "exited" /\ ~procs[p].ok
                     THEN [procs EXCEPT ![p].err = <<>>]
                     ELSE procs
  /\ loc' = InitLoc
  /\ lock' = 0
  /\ pc' = [pc EXCEPT ![c] = "idle"]
  /\ UNCHANGED <<child, total_duration, arg, sawEnd>>

\* -------------------------------------------------------- cancel_export
\* Mutant of Cancelled: running is left as it was.
CancelledKeepsRunning(pr) == [pr EXCEPT !.error = <<CancelMsg>>]

\* state.progress after a cancel of an active export.
Cancelled(pr) == [pr EXCEPT !.running = FALSE, !.error = Some(CancelMsg)]

CancelActive(c) ==
  /\ pc[c] = "idle"
  /\ lock = 0
  /\ child # None
  /\ procs' = [procs EXCEPT ![child[1]] = Dropped(Kill(procs[child[1]], <<>>))]
  /\ progress' = Cancelled(progress)
  /\ child' = None
  /\ last' = Returned("cancel", "Ok:Export cancelled", DefaultProgress)
  /\ sawEnd' = FALSE
  /\ UNCHANGED <<total_duration, lock, pc, arg, loc>>

CancelNone(c) ==
  /\ pc[c] = "idle"
  /\ lock = 0
  /\ child = None
  /\ last' = Returned("cancel", "Ok:No export in progress", DefaultProgress)
  /\ UNCHANGED <<child, progress, total_duration, lock, procs, pc, arg, loc, sawEnd>>

\* ----------------------------------------------------------- the engine
\* FFmpeg writes the next block of its progress stream; the block that
\* carries progress=end is its last.
EngineWriteOut(p) ==
  /\ Alive(p)
  /\ procs[p].open
  /\ ~procs[p].ended
  /\ procs[p].wrote < MaxOut
  /\ \E blk \in OutBlocks :
       procs' = [procs EXCEPT
                   ![p].out = @ \o blk,
                   ![p].wrote = @ + 1,
                   ![p].ended = (blk[Len(blk)].k = "progress=end")]
  /\ UNCHANGED <<child, progress, total_duration, lock, pc, arg, loc, last, sawEnd>>

\* FFmpeg exits by itself: with status zero, or with a non-zero status
\* after it has logged err to its error stream.
EngineExit(p) ==
  /\ Alive(p)
  /\ \/ procs' = [procs EXCEPT ![p].st = "exited", ![p].ok = TRUE, ![p].open = FALSE]
     \/ \E err \in ErrStreams :
          procs' = [procs EXCEPT ![p].st = "exited", ![p].ok = FALSE,
                                 ![p].open = FALSE, ![p].err = err]
  /\ UNCHANGED <<child, progress, total_duration, lock, pc, arg, loc, last, sawEnd>>

Next ==
  \/ \E c \in Callers : StartKill(c)
  \/ \E c \in Callers : StartRejectEmpty(c)
  \/ \E c \in Callers : StartSpawnFail(c)
  \/ \E c \in Callers : StartSpawnOk(c)
  \/ \E c \in Callers : PollIdle(c)
  \/ \E c \in Callers : PollLock(c)
  \/ \E c \in Callers : PollReadLine(c)
  \/ \E c \in Callers : PollReadEof(c)
  \/ \E c \in Callers : PollTryWait(c)
  \/ \E c \in Callers : CancelActive(c)
  \/ \E c \in Callers : CancelNone(c)
  \/ \E p \in Pids : EngineWriteOut(p)
  \/ \E p \in Pids : EngineExit(p)

Spec == Init /\ [][Next]_vars

\* The scheduling of the host: a call that holds the mutex runs on its own
\* thread and takes its next step whenever that step is possible.  Nothing
\* obliges the frontend to invoke a command or the engine to write or exit.
LockedStep(c) ==
  \/ StartRejectEmpty(c) \/ StartSpawnFail(c) \/ StartSpawnOk(c)
  \/ PollReadLine(c) \/ PollReadEof(c) \/ PollTryWait(c)

FairSpec == Spec /\ \A c \in Callers : WF_vars(LockedStep(c))

\* ------------------------------------------------------------- notions
\* The processes the job spawned that have neither been killed nor exited.
LiveProcs == {p \in Pids : Alive(p)}

\* A call of caller c returns in this step with a successful spawn.
StartOkStep(c) ==
  pc[c] = "start_locked" /\ pc'[c] = "idle" /\ last'.res = "Ok:Export started"

\* A step of a start call of caller c whose clip list is empty.
StartEmptyStep(c) ==
  \/ pc[c] = "idle" /\ pc'[c] = "start_locked" /\ arg'[c] = <<>>
  \/ pc[c] = "start_locked" /\ pc'[c] = "idle" /\ arg[c] = <<>>

\* A cancel call returns in this step (a cancel that finds no handle right
\* after another one that found none changes nothing at all).
CancelStep == last' # last /\ last'.op = "cancel"

\* A poll of caller c returns in this step.
PollReturnStep(c) ==
  \/ pc[c] = "poll_wait" /\ pc'[c] = "idle"
  \/ pc[c] = "idle" /\ pc'[c] = "idle" /\ last' # last /\ last'.op = "poll"

\* ------------------------------------------------------------- claims
\* C1: a start call with an empty clip list returns an error and spawns no
\* engine process, whatever the job state it is made in.
C1_EmptyStartRejected ==
  [][\A c \in Callers :
       (pc[c] = "start_locked" /\ arg[c] = <<>> /\ pc'[c] = "idle")
         => /\ last'.op = "start"
            /\ last'.res = "Err:No clips to export"
            /\ NumSpawned' = NumSpawned]_vars

\* C1 witness: an empty start was rejected while the job held the handle of
\* an export whose snapshot says running.
C1_Witness ==
  /\ last.op = "start"
  /\ last.res = "Err:No clips to export"
  /\ child # None
  /\ progress.running

\* C2 (as claimed): no step of a start call with an empty clip list changes
\* the handle, the snapshot, the total duration or any engine process; in
\* particular it kills none.
C2_EmptyStartTouchesNothing ==
  [][\A c \in Callers :
       StartEmptyStep(c)
         => UNCHANGED <<child, progress, total_duration, procs>>]_vars

\* C3: every engine process that is alive is the one the handle refers to,
\* so at most one is alive, also between the kill and the spawn of a start;
\* and the handle always refers to the process spawned last.
C3_OneLiveProcess ==
  /\ \A p \in Pids : Alive(p) => child = Some(p)
  /\ Cardinality(LiveProcs) <= 1
  /\ child # None => child[1] = NumSpawned

\* C3 witness: a second start superseded an export that was running; the
\* first process was killed, the handle is the second one, which is alive.
C3_Witness ==
  /\ NumSpawned = 2
  /\ procs[1].killed
  /\ child = Some(2)
  /\ Alive(2)
  /\ last.res = "Ok:Export started"

\* C4: a cancel that finds a handle kills that process, stores running=false
\* and the cancellation message, clears the handle and returns Ok; a cancel
\* that finds none returns Ok and leaves handle, snapshot and total duration
\* as they were.
C4_Cancel ==
  [][CancelStep =>
       IF child # None
       THEN /\ procs'[child[1]].st = "exited"
            /\ child' = None
            /\ progress' = [progress EXCEPT !.running = FALSE,
                                            !.error = Some(CancelMsg)]
            /\ total_duration' = total_duration
            /\ last'.res = "Ok:Export cancelled"
       ELSE /\ last'.res = "Ok:No export in progress"
            /\ UNCHANGED <<child, progress, total_duration, procs>>]_vars

\* C4 witness: a cancel killed a running engine and left the job idle with
\* the cancellation recorded.
C4_Witness ==
  /\ last.res = "Ok:Export cancelled"
  /\ child = None
  /\ \E p \in Pids : procs[p].killed
  /\ progress.error = Some(CancelMsg)

\* C5 (as claimed): cancel never returns an error, and once an export has
\* been cancelled (the stored error is the cancellation message, which only
\* a successful start removes) every poll returns running=false with the
\* cancellation message as error.
C5_PollsSeeCancellation ==
  /\ last.op = "cancel" => last.res \in {"Ok:Export cancelled", "Ok:No export in progress"}
  /\ (last.op = "poll" /\ progress.error = Some(CancelMsg))
       => (~last.snap.running /\ last.snap.error = Some(CancelMsg))

\* C6 (as claimed): once a poll has consumed progress=end, every snapshot a
\* poll returns (that poll's and the later ones, until a start or a cancel)
\* has percent 100.0, running=false and no error.
C6_EndIsFinal ==
  (sawEnd /\ last.op = "poll" /\ \A c \in Callers : pc[c] # "poll_wait")
    => /\ last.snap.percent = PercentDone
       /\ ~last.snap.running
       /\ last.snap.error = None

\* The last non-empty line of an error stream, None when it has none.
RECURSIVE LastNonEmptyLine(_)
LastNonEmptyLine(lines) ==
  IF lines = <<>> THEN None
  ELSE IF lines[Len(lines)] # "" THEN Some(lines[Len(lines)])
  ELSE LastNonEmptyLine(SubSeq(lines, 1, Len(lines) - 1))

\* C7 (as claimed): a poll that finds the process exited with failure
\* returns running=false and a non-empty error: the last non-empty line of
\* the error stream, or the exit-code message when there is no such line.
C7_FailureMessage ==
  [][\A c \in Callers :
       (/\ pc[c] = "poll_wait" /\ pc'[c] = "idle"
        /\ procs[child[1]].st = "exited" /\ ~procs[child[1]].ok)
         => /\ ~last'.snap.running
            /\ last'.snap.error # None
            /\ last'.snap.error # Some("")
            /\ last'.snap.error =
                 (IF LastNonEmptyLine(procs[child[1]].err) # None
                  THEN LastNonEmptyLine(procs[child[1]].err)
                  ELSE Some(ExitCodeMsg))]_vars

\* C8: while the stored snapshot has running=false, no step other than the
\* return of a successful start stores running=true, and no poll returns a
\* snapshot with running=true.
C8_NoWayBackFromTerminal ==
  [][(~progress.running /\ ~(\E c \in Callers : StartOkStep(c)))
       => /\ ~progress'.running
          /\ \A c \in Callers : PollReturnStep(c) => ~last'.snap.running]_vars

\* C8 witness: the export ended (the handle is still held), the stored
\* snapshot is terminal and a poll has returned it.
C8_Witness ==
  /\ child # None
  /\ ~progress.running
  /\ last.op = "poll"
  /\ last.snap = progress
  /\ progress.percent = PercentDone

\* C9 (as claimed): the handle is set only by a successful start, and after
\* a poll has observed the clean exit of the process the job holds no handle.
C9_HandleClearedOnCleanExit ==
  [][/\ (child' # child /\ child' # None) => \E c \in Callers : StartOkStep(c)
     /\ \A c \in Callers :
          (/\ pc[c] = "poll_wait" /\ pc'[c] = "idle"
           /\ procs[child[1]].st = "exited" /\ procs[child[1]].ok)
            => child' = None]_vars

\* C10 (as claimed): a poll never waits for the engine while it holds the
\* lock: wherever its line loop stands, its next step is possible.
C10_PollNeverWaits ==
  \A c \in Callers :
    pc[c] = "poll_read" => ENABLED (PollReadLine(c) \/ PollReadEof(c))

\* C10 (as claimed), the consequence for the other calls: the lock is always
\* released again, so a start or cancel waiting for it gets it.
C10_LockAlwaysReleased == [](lock # 0 => <>(lock = 0))

\* The host that keeps polling, with an engine that does not run for ever:
\* a poll is invoked again and again (and gets the mutex infinitely often
\* if it is free infinitely often), and each engine process that is alive
\* eventually exits unless it is killed first.
PollStart == \E c \in Callers : PollIdle(c) \/ PollLock(c)

PollingSpec ==
  /\ Spec
  /\ \A c \in Callers : WF_vars(LockedStep(c))
  /\ SF_vars(PollStart)
  /\ \A p \in Pids : WF_vars(EngineExit(p))

\* A poll of caller c finds, in this step, that the process has exited with
\* status zero.
PollSeesCleanExit(c) ==
  /\ pc[c] = "poll_wait" /\ pc'[c] = "idle"
  /\ procs[child[1]].st = "exited" /\ procs[child[1]].ok

\* C11: with the host polling and the engine exiting, whenever the stored
\* snapshot says running a poll eventually returns running=false; and the
\* poll that observes a successful exit returns percent 100.0.
C11_PollingEnds ==
  /\ [](progress.running => <>(last.op = "poll" /\ ~last.snap.running))
  /\ [][\A c \in Callers :
          PollSeesCleanExit(c)
            => (last'.snap.percent = PercentDone /\ ~last'.snap.running)]_vars

\* C11 witness: the engine exited with status zero by itself and a poll has
\* returned the terminal snapshot at 100.0.
C11_Witness ==
  /\ child # None
  /\ procs[child[1]].st = "exited" /\ procs[child[1]].ok
  /\ last.op = "poll"
  /\ ~last.snap.running
  /\ last.snap.percent = PercentDone
  /\ last.snap.error = None

\* C12 (as claimed): the stored percent and the percent of every returned
\* snapshot lie in [0, 100], and percent is below 100 while running.
C12_PercentInRange ==
  /\ 0 <= progress.percent /\ progress.percent <= PercentDone
  /\ 0 <= last.snap.percent /\ last.snap.percent <= PercentDone
  /\ progress.running => progress.percent < PercentDone

\* ======================================================================
\* The filter graph compiler: build_effect_filters, build_audio_filters and
\* build_filter_complex.
\*
\* Numbers.  An f64 parameter is kept in thousandths (Unit is 1.0), so the
\* tolerance 0.001 of the no-op tests is one unit.  A number that is
\* formatted into an expression is kept exactly, as the fraction n/d; the
\* {:.6} formatting prints it with six decimals.  An expression is its
\* format string (with the places of the values left open) and the values.
Unit == 1000

Frac(n, d) == [n |-> n, d |-> d]
Real(x) == Frac(x, Unit)
Whole(k) == Frac(k, 1)

Expr(name, args) == [name |-> name, args |-> args]

Abs(x) == IF x < 0 THEN -x ELSE x

\* `x as u32` on a value in units: truncation, negative values give 0.
AsU32(x) == IF x < 0 THEN 0 ELSE x \div Unit

\* An AppliedEffect: parameters is a function from parameter names to values.
Effect(effect_id, enabled, parameters) ==
  [effect_id |-> effect_id, enabled |-> enabled, parameters |-> parameters]

\* effect.parameters.get(name).copied().unwrap_or(default)
Get(effect, name, default) ==
  IF name \in DOMAIN effect.parameters THEN effect.parameters[name] ELSE default

\* lerp of the sepia arm: identity + (sepia - identity) * amount, with the
\* matrix entries in thousandths.
Lerp(identity, sepia, amount) ==
  Frac(identity * Unit * Unit + (sepia - identity * Unit) * amount, Unit * Unit)

\* The match of build_effect_filters on one enabled effect: None where the
\* arm continues, Some(filter) where it yields a filter.
VideoArm(e) ==
  CASE e.effect_id = "scale" ->
         LET scale == Get(e, "scale", Unit)
         IN  IF Abs(scale - Unit) < 1 THEN None
             ELSE Some(Expr("scale=iw*{}:ih*{}", <<Real(scale), Real(scale)>>))
    [] e.effect_id = "position" ->
         LET x == Get(e, "positionX", 0)
             y == Get(e, "positionY", 0)
             abs_x == AsU32(Abs(x))
             abs_y == AsU32(Abs(y))
             crop_x == IF x > 0 THEN 0 ELSE abs_x
             crop_y == IF y > 0 THEN 0 ELSE abs_y
             pad_x == IF x > 0 THEN abs_x ELSE 0
             pad_y == IF y > 0 THEN abs_y ELSE 0
         IN  IF Abs(x) < 1 /\ Abs(y) < 1 THEN None
             ELSE Some(Expr("pad=iw+{}:ih+{}:{}:{}:black,crop=iw-{}:ih-{}:{}:{}",
                            <<Whole(abs_x), Whole(abs_y), Whole(pad_x), Whole(pad_y),
                              Whole(abs_x), Whole(abs_y), Whole(crop_x), Whole(crop_y)>>))
    [] e.effect_id = "rotation" ->
         LET degrees == Get(e, "degrees", 0)
         IN  IF Abs(degrees) < 1 THEN None
             ELSE Some(Expr("rotate={}*PI:fillcolor=black", <<Frac(degrees, 180 * Unit)>>))
    [] e.effect_id = "opacity" ->
         LET opacity == Get(e, "opacity", Unit)
         IN  IF Abs(opacity - Unit) < 1 THEN None
             ELSE Some(Expr("format=rgba,colorchannelmixer=aa={}", <<Real(opacity)>>))
    [] e.effect_id = "crop" ->
         Some(Expr("crop={}:{}:{}:{}",
                   <<Whole(AsU32(Get(e, "width", 1920 * Unit))),
                     Whole(AsU32(Get(e, "height", 1080 * Unit))),
                     Whole(AsU32(Get(e, "x", 0))),
                     Whole(AsU32(Get(e, "y", 0)))>>))
    [] e.effect_id = "brightness" ->
         LET brightness == Get(e, "brightness", 0)
         IN  IF Abs(brightness) < 1 THEN None
             ELSE Some(Expr("eq=brightness={}", <<Real(brightness)>>))
    [] e.effect_id = "contrast" ->
         LET contrast == Get(e, "contrast", Unit)
         IN  IF Abs(contrast - Unit) < 1 THEN None
             ELSE Some(Expr("eq=contrast={}", <<Real(contrast)>>))
    [] e.effect_id = "saturation" ->
         LET saturation == Get(e, "saturation", Unit)
         IN  IF Abs(saturation - Unit) < 1 THEN None
             ELSE Some(Expr("eq=saturation={}", <<Real(saturation)>>))
    [] e.effect_id = "exposure" ->
         LET exposure == Get(e, "exposure", 0)
         IN  IF Abs(exposure) < 1 THEN None
             ELSE Some(Expr("exposure=exposure={}", <<Real(exposure)>>))
    [] e.effect_id = "color_temperature" ->
         LET temp == Get(e, "temperature", 6500 * Unit)
         IN  IF Abs(temp - 6500 * Unit) < Unit THEN None
             ELSE Some(Expr("colortemperature=temperature={}", <<Whole(AsU32(temp))>>))
    [] e.effect_id = "hue_rotate" ->
         LET degrees == Get(e, "degrees", 0)
         IN  IF Abs(degrees) < 1 THEN None
             ELSE Some(Expr("hue=h={}", <<Real(degrees)>>))
    [] e.effect_id = "grayscale" ->
         LET amount == Get(e, "amount", Unit)
         IN  IF amount < 1 THEN None
             ELSE IF amount >= Unit THEN Some(Expr("hue=s=0", <<>>))
             ELSE Some(Expr("hue=s={}", <<Real(Unit - amount)>>))
    [] e.effect_id = "gaussian_blur" ->
         LET sigma == Get(e, "sigma", 0)
         IN  IF sigma < 1 THEN None
             ELSE Some(Expr("gblur=sigma={}", <<Real(sigma)>>))
    [] e.effect_id = "sharpen" ->
         LET amount == Get(e, "amount", 0)
         IN  IF amount < 1 THEN None
             ELSE Some(Expr("unsharp=5:5:{}:5:5:{}",
                            <<Real(amount), Frac(amount, 2 * Unit)>>))
    [] e.effect_id = "sepia" ->
         LET amount == Get(e, "amount", Unit)
         IN  IF amount < 1 THEN None
             ELSE Some(Expr("colorchannelmixer={}:{}:{}:0:{}:{}:{}:0:{}:{}:{}",
                            <<Lerp(1, 393, amount), Lerp(0, 769, amount),
                              Lerp(0, 189, amount), Lerp(0, 349, amount),
                              Lerp(1, 686, amount), Lerp(0, 168, amount),
                              Lerp(0, 272, amount), Lerp(0, 534, amount),
                              Lerp(1, 131, amount)>>))
    [] e.effect_id = "vignette" ->
         LET angle == Get(e, "angle", 0)
         IN  IF angle < 1 THEN None
             ELSE Some(Expr("vignette=angle={}", <<Real(angle)>>))
    [] e.effect_id = "fade_in" ->
         Some(Expr("fade=t=in:d={}", <<Real(Get(e, "duration", Unit))>>))
    [] e.effect_id = "fade_out" ->
         Some(Expr("fade=t=out:st={}:d={}",
                   <<Real(Get(e, "start", 0)), Real(Get(e, "duration", Unit))>>))
    [] e.effect_id = "playback_speed" ->
         LET rate == Get(e, "rate", Unit)
         IN  IF Abs(rate - Unit) < 1 THEN None
             ELSE Some(Expr("setpts={}*PTS", <<Frac(Unit, rate)>>))
    [] OTHER -> None

\* Mutant of Skipped: the enabled flag is not looked at.
SkippedNever(e) == FALSE

\* if !effect.enabled { continue; }
Skipped(e) == ~e.enabled

\* The body of the loop of build_effect_filters for one effect: the filters
\* with what the effect pushes.
PushVideo(filters, e) ==
  IF Skipped(e) THEN filters ELSE filters \o VideoArm(e)

\* build_effect_filters: the loop over the effects from index i on.
RECURSIVE VideoLoop(_, _, _)
VideoLoop(effects, i, filters) ==
  IF i > Len(effects) THEN filters
  ELSE VideoLoop(effects, i + 1, PushVideo(filters, effects[i]))

build_effect_filters(effects) == VideoLoop(effects, 1, <<>>)

\* ------------------------------------------------- build_audio_filters
\* rate >= 0.5 && rate <= 100.0
InTempoRange(rate) == rate >= Unit \div 2 /\ rate <= 100 * Unit

\* The locals of the decomposition: the filters pushed so far and remaining.
Tempo(filters, remaining) == [filters |-> filters, remaining |-> remaining]

\* Mutant of TempoGuard: the loop runs until remaining reaches 1.0.
TempoGuardOne(t) == t.remaining < Unit

\* while remaining < 0.5
TempoGuard(t) == t.remaining < Unit \div 2

\* filters.push("atempo=0.5"); remaining /= 0.5;
TempoBody(t) ==
  Tempo(Append(t.filters, Expr("atempo=0.5", <<>>)), t.remaining * 2)

\* filters.push(format!("atempo={:.6}", remaining)) after the loop
TempoLast(t) == Append(t.filters, Expr("atempo={}", <<Real(t.remaining)>>))

\* The while loop, run to its end.
RECURSIVE TempoLoop(_)
TempoLoop(t) == IF TempoGuard(t) THEN TempoLoop(TempoBody(t)) ELSE t

\* Which way an effect goes through the body of the loop of
\* build_audio_filters.
AudioArm(e) ==
  IF Skipped(e) \/ e.effect_id # "playback_speed" THEN "continue"
  ELSE LET rate == Get(e, "rate", Unit)
       IN  IF Abs(rate - Unit) < 1 THEN "continue"
           ELSE IF InTempoRange(rate) THEN "single"
           ELSE IF rate < Unit \div 2 THEN "chain"
           ELSE "nothing"

\* The body of the loop of build_audio_filters for one effect.
PushAudio(filters, e) ==
  CASE AudioArm(e) = "single" ->
         Append(filters, Expr("atempo={}", <<Real(Get(e, "rate", Unit))>>))
    [] AudioArm(e) = "chain" ->
         TempoLast(TempoLoop(Tempo(filters, Get(e, "rate", Unit))))
    [] OTHER -> filters

RECURSIVE AudioLoop(_, _, _)
AudioLoop(effects, i, filters) ==
  IF i > Len(effects) THEN filters
  ELSE AudioLoop(effects, i + 1, PushAudio(filters, effects[i]))

build_audio_filters(effects) == AudioLoop(effects, 1, <<>>)

\* ------------------------------------------------- build_filter_complex
\* An ExportClip as the compiler reads it.
ExportClip(source_start, source_end, effects) ==
  [source_start |-> source_start, source_end |-> source_end, effects |-> effects]

\* A port label as formatted text: '[' pre num post ']', num being the
\* decimal index the format string is filled with, if it has a hole.
\* "[v0]" written literally and "[v{}]" filled with 0 are the same label.
Port(pre, num, post) == <<pre, num, post>>

\* One element of filter_parts: the input ports, the filters of the chain
\* joined by ',' and the output ports.
Part(inputs, filters, outputs) ==
  [inputs |-> inputs, filters |-> filters, outputs |-> outputs]

\* video_chain of the clip at 0-based index i: trim, setpts, the video
\* effects, then scale and pad to the output size.
VideoChain(i, clip, video_effects, w, h) ==
  Part(<<Port("", Some(i), ":v")>>,
       <<Expr("trim=start={}:end={}", <<Real(clip.source_start), Real(clip.source_end)>>),
         Expr("setpts=PTS-STARTPTS", <<>>)>>
       \o video_effects
       \o <<Expr("scale={}:{}:force_original_aspect_ratio=decrease", <<Whole(w), Whole(h)>>),
            Expr("pad={}:{}:(ow-iw)/2:(oh-ih)/2:black", <<Whole(w), Whole(h)>>)>>,
       <<Port("v", Some(i), "")>>)

\* audio_chain of the clip at 0-based index i.
AudioChain(i, clip, audio_effects) ==
  Part(<<Port("", Some(i), ":a")>>,
       <<Expr("atrim=start={}:end={}", <<Real(clip.source_start), Real(clip.source_end)>>),
         Expr("asetpts=PTS-STARTPTS", <<>>)>>
       \o audio_effects,
       <<Port("a", Some(i), "")>>)

\* video_streams.iter().zip(audio_streams.iter()).map(|(v, a)| v + a)
RECURSIVE Zip(_, _)
Zip(vs, as) ==
  IF vs = <<>> \/ as = <<>> THEN <<>>
  ELSE <<Head(vs), Head(as)>> \o Zip(Tail(vs), Tail(as))

\* The concat node pushed after the loop.
ConcatPart(video_streams, audio_streams, n) ==
  Part(Zip(video_streams, audio_streams),
       <<Expr("concat=n={}:v=1:a=1", <<Whole(n)>>)>>,
       <<Port("vout", None, ""), Port("aout", None, "")>>)

\* Mutant of SingleClip: the early return is never taken.
SingleClipNever(clips) == FALSE

\* if clips.len() == 1 { return filter_parts.join(";") }
SingleClip(clips) == Len(clips) = 1

\* The -map arguments export_video adds after -filter_complex.
OutputMap(clips) ==
  IF Len(clips) = 1 THEN <<Port("v", Some(0), ""), Port("a", Some(0), "")>>
  ELSE <<Port("vout", None, ""), Port("aout", None, "")>>

\* ------------------------------------------ the compiler's specification
\* build_filter_complex, step by step, on clip lists drawn from bounded sets.
\* The variables of the job are reused: arg[1] is the clip list, loc the
\* locals of the call, pc[1] its position and last what it returned.  The
\* job itself stays as lib.rs constructs it.
MaxEffects == 2
MaxGraphClips == 2

\* One effect of every kind the video compiler knows, with parameters that
\* make it emit, and the cases around them: disabled effects, an unknown
\* kind, no-op parameters, and playback speeds on every side of the range
\* atempo accepts.
EffectVals ==
  { Effect("scale", TRUE, [scale |-> 1500]),
    Effect("scale", FALSE, [scale |-> 1500]),
    Effect("scale", TRUE, [scale |-> 1000]),
    Effect("position", TRUE, [positionX |-> -10000, positionY |-> 5000]),
    Effect("rotation", TRUE, [degrees |-> 90000]),
    Effect("opacity", TRUE, [opacity |-> 500]),
    Effect("crop", TRUE, [width |-> 640000, height |-> 360000]),
    Effect("brightness", TRUE, [brightness |-> 500]),
    Effect("brightness", TRUE, [brightness |-> 0]),
    Effect("contrast", TRUE, [contrast |-> 1500]),
    Effect("saturation", TRUE, [saturation |-> 500]),
    Effect("exposure", TRUE, [exposure |-> 1000]),
    Effect("color_temperature", TRUE, [temperature |-> 4000000]),
    Effect("hue_rotate", TRUE, [degrees |-> 90000]),
    Effect("grayscale", TRUE, [amount |-> 500]),
    Effect("gaussian_blur", TRUE, [sigma |-> 5000]),
    Effect("gaussian_blur", FALSE, [sigma |-> 5000]),
    Effect("sharpen", TRUE, [amount |-> 500]),
    Effect("sepia", TRUE, [amount |-> 500]),
    Effect("vignette", TRUE, [angle |-> 500]),
    Effect("fade_in", TRUE, [duration |-> 2000]),
    Effect("fade_out", TRUE, [start |-> 1000, duration |-> 2000]),
    Effect("glitch", TRUE, [amount |-> 1000]),
    Effect("playback_speed", TRUE, [rate |-> 250]),
    Effect("playback_speed", TRUE, [rate |-> 2000]),
    Effect("playback_speed", TRUE, [rate |-> 1000]),
    Effect("playback_speed", TRUE, [rate |-> 150000]),
    Effect("playback_speed", FALSE, [rate |-> 250]) }

RECURSIVE SeqsUpTo(_, _)
SeqsUpTo(S, n) ==
  IF n = 0 THEN {<<>>}
  ELSE LET shorter == SeqsUpTo(S, n - 1)
       IN  shorter \cup {Append(q, x) : q \in shorter, x \in S}

EffectLists == SeqsUpTo(EffectVals, MaxEffects)

\* Clips of lists of several clips: the effect stacks differ from clip to
\* clip.
GraphClipVals ==
  { ExportClip(1000, 3000, <<>>),
    ExportClip(0, 2000, <<Effect("playback_speed", TRUE, [rate |-> 250])>>),
    ExportClip(0, 2000, <<Effect("scale", TRUE, [scale |-> 1500]),
                          Effect("gaussian_blur", FALSE, [sigma |-> 5000])>>) }

\* export_video calls build_filter_complex with a non-empty clip list only.
CompileClipLists ==
  (SeqsUpTo(GraphClipVals, MaxGraphClips) \ {<<>>})
  \cup {<<ExportClip(0, 2000, fx)>> : fx \in EffectLists}

\* settings.width, settings.height
OutputSizes == {<<1920, 1080>>, <<1280, 720>>}

\* The locals of build_filter_complex; i is the 0-based index of the clip
\* the loop is at.
GraphLoc(w, h) ==
  [output_width |-> w, output_height |-> h, i |-> 0,
   filter_parts |-> <<>>, video_streams |-> <<>>, audio_streams |-> <<>>,
   video_effects |-> <<>>, audio_effects |-> <<>>, map |-> <<>>]

CompileInit ==
  /\ child = None
  /\ progress = DefaultProgress
  /\ total_duration = 0
  /\ lock = 0
  /\ procs = [p \in Pids |-> Unborn]
  /\ \E clips \in CompileClipLists :
       arg = [c \in Callers |-> IF c = 1 THEN clips ELSE <<>>]
  /\ \E size \in OutputSizes : loc = GraphLoc(size[1], size[2])
  /\ pc = [c \in Callers |-> IF c = 1 THEN "graph_loop" ELSE "idle"]
  /\ last = Returned("none", "none", DefaultProgress)
  /\ sawEnd = FALSE

\* The clip the loop of build_filter_complex is at.
CurrentClip == arg[1][loc.i + 1]

\* let video_effects = build_effect_filters(&clip.effects);
GraphVideoEffects ==
  /\ pc[1] = "graph_loop"
  /\ loc.i < Len(arg[1])
  /\ loc' = [loc EXCEPT !.video_effects = build_effect_filters(CurrentClip.effects)]
  /\ pc' = [pc EXCEPT ![1] = "graph_audio"]
  /\ UNCHANGED <<child, progress, total_duration, lock, procs, arg, last, sawEnd>>

\* let audio_effects = build_audio_filters(&clip.effects);
GraphAudioEffects ==
  /\ pc[1] = "graph_audio"
  /\ loc' = [loc EXCEPT !.audio_effects = build_audio_filters(CurrentClip.effects)]
  /\ pc' = [pc EXCEPT ![1] = "graph_push"]
  /\ UNCHANGED <<child, progress, total_duration, lock, procs, arg, last, sawEnd>>

\* The four pushes that end the body of the loop.
GraphPush ==
  /\ pc[1] = "graph_push"
  /\ loc' = [loc EXCEPT
       !.filter_parts =
          @ \o <<VideoChain(loc.i, CurrentClip, loc.video_effects,
                            loc.output_width, loc.output_height),
                 AudioChain(loc.i, CurrentClip, loc.audio_effects)>>,
       !.video_streams = Append(@, Port("v", Some(loc.i), "")),
       !.audio_streams = Append(@, Port("a", Some(loc.i), "")),
       !.video_effects = <<>>,
       !.audio_effects = <<>>,
       !.i = @ + 1]
  /\ pc' = [pc EXCEPT ![1] = "graph_loop"]
  /\ UNCHANGED <<child, progress, total_duration, lock, procs, arg, last, sawEnd>>

\* After the loop: the early return for one clip, the concat node otherwise.
GraphReturn ==
  /\ pc[1] = "graph_loop"
  /\ loc.i = Len(arg[1])
  /\ last' = Returned("build_filter_complex", "Ok",
                      IF SingleClip(arg[1]) THEN loc.filter_parts
                      ELSE Append(loc.filter_parts,
                                  ConcatPart(loc.video_streams, loc.audio_streams,
                                             Len(arg[1]))))
  /\ pc' = [pc EXCEPT ![1] = "graph_done"]
  /\ UNCHANGED <<child, progress, total_duration, lock, procs, arg, loc, sawEnd>>

\* export_video: the -map arguments that follow -filter_complex.
StartMap ==
  /\ pc[1] = "graph_done"
  /\ loc' = [loc EXCEPT !.map = OutputMap(arg[1])]
  /\ pc' = [pc EXCEPT ![1] = "graph_mapped"]
  /\ UNCHANGED <<child, progress, total_duration, lock, procs, arg, last, sawEnd>>

CompileNext ==
  \/ GraphVideoEffects
  \/ GraphAudioEffects
  \/ GraphPush
  \/ GraphReturn
  \/ StartMap

CompileSpec == CompileInit /\ [][CompileNext]_vars

\* ------------------------------------- the decomposition, step by step
\* build_audio_filters on one enabled playback_speed effect, the while loop
\* taken one iteration at a time.  arg[1] holds the effect list, loc the
\* filters pushed so far and remaining, last what the call returned.
\* Rates are in thousandths: every rate of (0, 0.5) at that resolution, and
\* rates at and around the ends of [0.5, 100.0] and the no-op 1.0.
RateVals ==
  (1..(Unit \div 2 + 100))
  \cup {Unit - 1, Unit, Unit + 1, 2 * Unit, 100 * Unit - 1, 100 * Unit,
        100 * Unit + 1, 150 * Unit}

TempoInit ==
  /\ child = None
  /\ progress = DefaultProgress
  /\ total_duration = 0
  /\ lock = 0
  /\ procs = [p \in Pids |-> Unborn]
  /\ \E rate \in RateVals :
       arg = [c \in Callers |->
                IF c = 1 THEN <<Effect("playback_speed", TRUE, [rate |-> rate])>>
                ELSE <<>>]
  /\ loc = Tempo(<<>>, Unit)
  /\ pc = [c \in Callers |-> IF c = 1 THEN "tempo_enter" ELSE "idle"]
  /\ last = Returned("none", "none", DefaultProgress)
  /\ sawEnd = FALSE

\* The effect a build_audio_filters call of one effect is made with.
TempoEffect == arg[1][1]

\* The effect pushes nothing: the no-op continue, or neither branch of the
\* range test.
TempoNone ==
  /\ pc[1] = "tempo_enter"
  /\ AudioArm(TempoEffect) \in {"continue", "nothing"}
  /\ last' = Returned("build_audio_filters", "Ok", loc.filters)
  /\ pc' = [pc EXCEPT ![1] = "tempo_done"]
  /\ UNCHANGED <<child, progress, total_duration, lock, procs, arg, loc, sawEnd>>

\* rate >= 0.5 && rate <= 100.0: one stage.
TempoSingle ==
  /\ pc[1] = "tempo_enter"
  /\ AudioArm(TempoEffect) = "single"
  /\ loc' = Tempo(PushAudio(loc.filters, TempoEffect), loc.remaining)
  /\ last' = Returned("build_audio_filters", "Ok", PushAudio(loc.filters, TempoEffect))
  /\ pc' = [pc EXCEPT ![1] = "tempo_done"]
  /\ UNCHANGED <<child, progress, total_duration, lock, procs, arg, sawEnd>>

\* rate < 0.5: let mut remaining = rate;
TempoChain ==
  /\ pc[1] = "tempo_enter"
  /\ AudioArm(TempoEffect) = "chain"
  /\ loc' = Tempo(loc.filters, Get(TempoEffect, "rate", Unit))
  /\ pc' = [pc EXCEPT ![1] = "tempo_loop"]
  /\ UNCHANGED <<child, progress, total_duration, lock, procs, arg, last, sawEnd>>

\* One iteration of the while loop.
TempoIterate ==
  /\ pc[1] = "tempo_loop"
  /\ TempoGuard(loc)
  /\ loc' = TempoBody(loc)
  /\ UNCHANGED <<child, progress, total_duration, lock, procs, pc, arg, last, sawEnd>>

\* The loop is left: the final stage, and the return.
TempoExit ==
  /\ pc[1] = "tempo_loop"
  /\ ~TempoGuard(loc)
  /\ loc' = Tempo(TempoLast(loc), loc.remaining)
  /\ last' = Returned("build_audio_filters", "Ok", TempoLast(loc))
  /\ pc' = [pc EXCEPT ![1] = "tempo_done"]
  /\ UNCHANGED <<child, progress, total_duration, lock, procs, arg, sawEnd>>

TempoNext ==
  \/ TempoNone
  \/ TempoSingle
  \/ TempoChain
  \/ TempoIterate
  \/ TempoExit

\* The call is a sequential computation: it takes its next step.
TempoSpec == TempoInit /\ [][TempoNext]_vars /\ WF_vars(TempoNext)

\* ------------------------------------------- claims about the compiler
\* The parts of a graph that are concatenation nodes.
ConcatNodes(graph) ==
  {k \in DOMAIN graph :
     \E j \in DOMAIN graph[k].filters : graph[k].filters[j].name = "concat=n={}:v=1:a=1"}

\* How many times a graph defines a port, i.e. names it as an output.
Definitions(graph, port) ==
  Cardinality({kj \in (DOMAIN graph) \X (1..2) :
                 /\ kj[2] \in DOMAIN graph[kj[1]].outputs
                 /\ graph[kj[1]].outputs[kj[2]] = port})

\* [v0][a0][v1][a1]...: the port pairs of n clips in clip-list order.
PortPairs(n) ==
  [j \in 1..(2 * n) |->
     IF j % 2 = 1 THEN <<"v", <<(j - 1) \div 2>>, "">>
     ELSE <<"a", <<(j - 2) \div 2>>, "">>]

\* C13: the graph of one clip has no concatenation node; the graph of two or
\* more clips has exactly one, placed last, with n the clip count and the
\* inputs [v_i][a_i] once each in clip-list order; each output port that
\* start maps is defined exactly once in the graph.
C13_ConcatShape ==
  pc[1] = "graph_mapped" =>
    LET graph == last.snap
        n == Len(arg[1])
    IN  /\ n = 1 => ConcatNodes(graph) = {}
        /\ n >= 2 =>
             /\ ConcatNodes(graph) = {Len(graph)}
             /\ graph[Len(graph)].filters = <<[name |-> "concat=n={}:v=1:a=1",
                                               args |-> <<[n |-> n, d |-> 1]>>]>>
             /\ graph[Len(graph)].inputs = PortPairs(n)
        /\ n = 1 => loc.map = <<<<"v", <<0>>, "">>, <<"a", <<0>>, "">>>>
        /\ n >= 2 => loc.map = <<<<"vout", <<>>, "">>, <<"aout", <<>>, "">>>>
        /\ \A j \in DOMAIN loc.map : Definitions(graph, loc.map[j]) = 1

C13_Witness ==
  /\ pc[1] = "graph_mapped"
  /\ Len(arg[1]) = 2
  /\ ConcatNodes(last.snap) = {5}
  /\ Len(loc.map) = 2

\* The effect kinds the video compiler has an arm for.
KnownKinds ==
  {"scale", "position", "rotation", "opacity", "crop", "brightness",
   "contrast", "saturation", "exposure", "color_temperature", "hue_rotate",
   "grayscale", "gaussian_blur", "sharpen", "sepia", "vignette", "fade_in",
   "fade_out", "playback_speed"}

\* What each effect emits when compiled alone, joined in list order.
RECURSIVE VideoImage(_)
VideoImage(effects) ==
  IF effects = <<>> THEN <<>>
  ELSE build_effect_filters(<<Head(effects)>>) \o VideoImage(Tail(effects))

RECURSIVE AudioImage(_)
AudioImage(effects) ==
  IF effects = <<>> THEN <<>>
  ELSE build_audio_filters(<<Head(effects)>>) \o AudioImage(Tail(effects))

\* C14: both compilers emit nothing for a disabled effect or an effect of
\* unknown kind, the video compiler emits at most one expression per
\* effect, and the output of each is what its effects emit one by one, in
\* the order of the list.
C14_EffectsInOrder ==
  pc[1] = "graph_push" =>
    LET effects == CurrentClip.effects
    IN  /\ loc.video_effects = VideoImage(effects)
        /\ loc.audio_effects = AudioImage(effects)
        /\ \A k \in DOMAIN effects :
             /\ Len(build_effect_filters(<<effects[k]>>)) <= 1
             /\ (~effects[k].enabled \/ effects[k].effect_id \notin KnownKinds)
                  => /\ build_effect_filters(<<effects[k]>>) = <<>>
                     /\ build_audio_filters(<<effects[k]>>) = <<>>

C14_Witness ==
  /\ pc[1] = "graph_push"
  /\ Len(CurrentClip.effects) = 2
  /\ ~CurrentClip.effects[1].enabled
  /\ CurrentClip.effects[2].effect_id = "playback_speed"
  /\ Len(loc.video_effects) = 1
  /\ Len(loc.audio_effects) = 2

\* C16: an enabled playback_speed effect with rate > 100 puts exactly one
\* tempo stage carrying that rate into the audio chain, so the audio chain
\* has a speed stage whenever the video chain has a time-scale filter.
C16_FastRateOneStage ==
  pc[1] = "graph_push" =>
    LET effects == CurrentClip.effects
    IN  /\ \A k \in DOMAIN effects :
             (/\ effects[k].enabled
              /\ effects[k].effect_id = "playback_speed"
              /\ "rate" \in DOMAIN effects[k].parameters
              /\ effects[k].parameters.rate > 100 * Unit)
             => \E j \in DOMAIN loc.audio_effects :
                  loc.audio_effects[j] =
                    [name |-> "atempo={}",
                     args |-> <<[n |-> effects[k].parameters.rate, d |-> Unit]>>]
        /\ (\E j \in DOMAIN loc.video_effects :
              loc.video_effects[j].name = "setpts={}*PTS")
           => \E j \in DOMAIN loc.audio_effects :
                loc.audio_effects[j].name \in {"atempo={}", "atempo=0.5"}

RECURSIVE Pow2(_)
Pow2(k) == IF k = 0 THEN 1 ELSE 2 * Pow2(k - 1)

\* The stages of a decomposition of rate: k stages at 0.5, then one stage
\* at rate / 0.5^k, that lies in [0.5, 1.0), k being the least such number.
Decomposed(out, rate) ==
  \E k \in 1..Len(out) :
    /\ Len(out) = k + 1
    /\ \A j \in 1..k : out[j] = [name |-> "atempo=0.5", args |-> <<>>]
    /\ out[k + 1] = [name |-> "atempo={}", args |-> <<[n |-> rate * Pow2(k), d |-> Unit]>>]
    /\ 2 * rate * Pow2(k) >= Unit
    /\ rate * Pow2(k) < Unit
    /\ \A m \in 0..(k - 1) : 2 * rate * Pow2(m) < Unit

\* C15: for a rate in (0, 0.5) the decomposition loop ends, with k >= 1
\* stages at 0.5 and one final stage at rate / 0.5^k in [0.5, 1.0), k the
\* least number of divisions that bring remaining to 0.5; a rate in
\* [0.5, 100.0] other than 1.0 gives exactly one stage at that rate.
C15_Decomposition ==
  /\ <>(pc[1] = "tempo_done")
  /\ [](pc[1] = "tempo_done" =>
          LET rate == TempoEffect.parameters.rate
          IN  /\ (0 < rate /\ 2 * rate < Unit) => Decomposed(last.snap, rate)
              /\ (2 * rate >= Unit /\ rate <= 100 * Unit /\ rate # Unit)
                   => last.snap = <<[name |-> "atempo={}",
                                     args |-> <<[n |-> rate, d |-> Unit]>>]>>)

C15_Witness ==
  /\ pc[1] = "tempo_done"
  /\ TempoEffect.parameters.rate = 3
  /\ Len(last.snap) = 9
  /\ last.snap[9].args[1].n = 768

\* ------------------------------------- claims about the terminal snapshot
\* C17: once a poll has returned running = FALSE, the next poll, with no
\* start or cancel returning in between, returns the same percent, running
\* and error.
C17_TerminalStable ==
  [][\A c \in Callers :
       (PollReturnStep(c) /\ last.op = "poll" /\ ~last.snap.running)
       => /\ last'.snap.percent = last.snap.percent
          /\ last'.snap.running = last.snap.running
          /\ last'.snap.error = last.snap.error]_vars

\* C18: between commands, a stored snapshot with running = TRUE does not
\* refer to a process the job itself has killed.
C18_RunningNotKilled ==
  (lock = 0 /\ child # None /\ progress.running) => ~procs[child[1]].killed

====
